---- MODULE Spec2Model ----
(***************************************************************************)
(* TOPdesk activity tracking: the change-detection engine of               *)
(* src/Topdesk-tool.  Two implementations live in the repository:          *)
(*   - TopdeskTracker (topdesk_utils.py), driven by the REST TopdeskClient *)
(*     and persisting to cache_file;                                       *)
(*   - TopdeskBrowser.check_for_updates (topdesk_browser.py), persisting   *)
(*     to LAST_CHECK_FILE.                                                 *)
(* A behaviour runs one of them (impl) against one persisted file and an   *)
(* external Source whose item lists and comment threads change over time.  *)
(*                                                                         *)
(* Encoding of Python values:                                              *)
(*   - a creation date is a positive number, ordered as the date strings   *)
(*     are; NoDate (0) stands for None / a missing or empty date, which    *)
(*     the code tests with "if date" / "not date";                         *)
(*   - NoStatus ("") stands for a missing / None / empty status;           *)
(*   - a dict is a record of its keys' values plus the set of keys that    *)
(*     are present (a JSON document may lack any of them).                 *)
(***************************************************************************)
EXTENDS Naturals, Sequences, FiniteSets, TLC

\* ---------------------------------------------------------------- bounds
MaxItems == 2       \* longest item list the Source returns for one kind
MaxComments == 2    \* longest comment thread of one item
MaxDate == 2        \* creation dates are 1..MaxDate
MaxEdits == 3       \* changes of the Source's data in one behaviour
MaxStoreEdits == 2  \* the same, in behaviours that also kill the process in a save
MaxReportEdits == 2 \* the same, in behaviours that also ask for summary reports
MaxTwoEdits == 2    \* the same, in behaviours of two processes on one file
MaxAttempts == 3    \* greatest max_attempts given to find_unique_word
MaxClock == 2       \* poll cycles in one behaviour (values of now())

\* ------------------------------------------------------------ data model
Impls == {"tracker", "browser"}
Kinds == <<"incidents", "changes">>
KindSet == {Kinds[1], Kinds[2]}
IdSeq == <<"I1", "I2">>
Ids == {IdSeq[i] : i \in DOMAIN IdSeq}
NoId == ""
NoStatus == ""
Statuses == {"open", "closed"}
NoDate == 0
Dates == 1..MaxDate

\* An item of a fetched list: a dict with its 'id' and 'status'.  An item
\* without an id is skipped whatever its status: one status stands for all.
Items ==
  [id : Ids, status : Statuses \cup {NoStatus}] \cup {[id |-> NoId, status |-> "open"]}

NoEntry == [last_status |-> NoStatus, last_comment_date |-> NoDate, last_check |-> 0]

EmptyMap == <<>>

\* (mutant) the assignment replaces the mapping by the one entry.
PutOnly(m, id, e) == [x \in {id} |-> e]

\* (mutant) the assignment also clears the status of every other entry.
PutClearsOthers(m, id, e) ==
  [x \in (DOMAIN m) \cup {id} |-> IF x = id THEN e ELSE [m[x] EXCEPT !.last_status = NoStatus]]

Put(m, id, e) == [x \in (DOMAIN m) \cup {id} |-> IF x = id THEN e ELSE m[x]]

\* {"incidents": {}, "changes": {}, "last_check": None}
EmptySnapshot ==
  [keys |-> {"incidents", "changes", "last_check"},
   incidents |-> EmptyMap, changes |-> EmptyMap, last_check |-> 0]

\* The value a process holds when no tracker object exists.
NoProc == [keys |-> {"noproc"}, incidents |-> EmptyMap, changes |-> EmptyMap, last_check |-> 0]

\* ------------------------------------------------- persisted JSON document
\* The file is absent, or a sequence of tokens: "{", then per top-level key
\* that is present a "key" token followed by one "entry" token per id
\* (mapping keys) or one "value" token (last_check), then "}".
Absent == <<[t |-> "absent", k |-> "", id |-> "", st |-> "", lcd |-> 0, lc |-> 0]>>

Tok(t, k, id, st, lcd, lc) == [t |-> t, k |-> k, id |-> id, st |-> st, lcd |-> lcd, lc |-> lc]

MapTokens(k, m) ==
  LET ids == SelectSeq(IdSeq, LAMBDA i : i \in DOMAIN m)
  IN  <<Tok("key", k, "", "", 0, 0)>> \o
      [n \in 1..Len(ids) |->
         Tok("entry", k, ids[n], m[ids[n]].last_status,
             m[ids[n]].last_comment_date, m[ids[n]].last_check)]

\* (mutant) a null last_check is left out of the text.
json_dump_skips_null(data) ==
  <<Tok("{", "", "", "", 0, 0)>> \o
  (IF "incidents" \in data.keys THEN MapTokens("incidents", data.incidents) ELSE <<>>) \o
  (IF "changes" \in data.keys THEN MapTokens("changes", data.changes) ELSE <<>>) \o
  (IF "last_check" \in data.keys /\ data.last_check # 0
     THEN <<Tok("key", "last_check", "", "", 0, 0),
            Tok("value", "last_check", "", "", 0, data.last_check)>>
     ELSE <<>>) \o
  <<Tok("}", "", "", "", 0, 0)>>

\* json.dump(data, f, indent=2): the text written for a dict.
json_dump(data) ==
  <<Tok("{", "", "", "", 0, 0)>> \o
  (IF "incidents" \in data.keys THEN MapTokens("incidents", data.incidents) ELSE <<>>) \o
  (IF "changes" \in data.keys THEN MapTokens("changes", data.changes) ELSE <<>>) \o
  (IF "last_check" \in data.keys
     THEN <<Tok("key", "last_check", "", "", 0, 0),
            Tok("value", "last_check", "", "", 0, data.last_check)>>
     ELSE <<>>) \o
  <<Tok("}", "", "", "", 0, 0)>>

\* json.load accepts the text: it starts a dict and reaches its closing brace,
\* and every key is followed by its value.
WellFormed(doc) ==
  /\ Len(doc) >= 2
  /\ doc[1].t = "{"
  /\ doc[Len(doc)].t = "}"
  /\ \A n \in 2..(Len(doc) - 1) : doc[n].t \in {"key", "entry", "value"}
  /\ \A n \in 1..Len(doc) :
       (doc[n].t = "key" /\ doc[n].k = "last_check") =>
          (n < Len(doc) /\ doc[n + 1].t = "value")

MapOf(doc, k) ==
  LET ns == {n \in 1..Len(doc) : doc[n].t = "entry" /\ doc[n].k = k}
      ids == {doc[n].id : n \in ns}
  IN  [i \in ids |->
         LET n == CHOOSE x \in ns : doc[x].id = i
         IN  [last_status |-> doc[n].st, last_comment_date |-> doc[n].lcd,
              last_check |-> doc[n].lc]]

\* json.load(f) of a well-formed document: the dict it denotes.
json_load(doc) ==
  LET keys == {doc[n].k : n \in {x \in 1..Len(doc) : doc[x].t = "key"}}
      vals == {n \in 1..Len(doc) : doc[n].t = "value"}
  IN  [keys |-> keys,
       incidents |-> MapOf(doc, "incidents"),
       changes |-> MapOf(doc, "changes"),
       last_check |-> IF vals = {} THEN 0 ELSE doc[CHOOSE n \in vals : TRUE].lc]

\* (mutant) whatever the file holds, the load yields the empty snapshot.
load_cache_forgets(f) == EmptySnapshot

\* TopdeskTracker._load_cache / TopdeskBrowser._load_previous_state
load_cache(f) ==
  IF f # Absent
    THEN IF WellFormed(f) THEN json_load(f) ELSE EmptySnapshot
    ELSE EmptySnapshot

\* TopdeskTracker._save_cache / TopdeskBrowser._save_previous_state: the file
\* after the write has been interrupted once `written` tokens reached it
\* (open(..., 'w') has truncated it), or completed (written = Len(text)).
save_cache(data, written) == SubSeq(json_dump(data), 1, written)

\* ------------------------------------------------------------------ events
NoItem == [id |-> NoId, status |-> NoStatus]

\* {"incident": item, "old_status": .., "new_status": .., "type": "status_change"}
StatusChange(item, old, new) ==
  [type |-> "status_change", item |-> item, old_status |-> old, new_status |-> new,
   comment |-> NoDate]

\* {"incident": item, "comment": latest_comment, "type": "new_comment"}
NewComment(item, comment) ==
  [type |-> "new_comment", item |-> item, old_status |-> NoStatus,
   new_status |-> NoStatus, comment |-> comment]

\* The state of one loop over a fetched list: the mapping of its kind (has:
\* the key is present in the dict), the two event lists, the number of Source
\* calls made so far and the error that ended the cycle ("" while it runs).
Acc(has, m, calls) ==
  [has |-> has, m |-> m, new |-> <<>>, upd |-> <<>>, calls |-> calls, err |-> ""]

\* ------------------------------------------- TopdeskTracker (topdesk_utils.py)
\* incident.get("status", {}).get("name", "Unknown")
StatusName(item) == IF item.status = NoStatus THEN "Unknown" ELSE item.status

\* The comment the tracker treats as latest: comments[0].
tracker_latest(comments) == comments[1]

\* (mutant) the comparison with the cached date is not strict.
tracker_comments_ge(item, comments, acc) ==
  IF comments # <<>> /\ comments[1] # NoDate
       /\ comments[1] >= acc.m[item.id].last_comment_date
    THEN [acc EXCEPT
            !.upd = Append(@, NewComment(item, comments[1])),
            !.m = Put(@, item.id, [acc.m[item.id] EXCEPT !.last_comment_date = comments[1]])]
    ELSE acc

\* (mutant) the latest date is stored whenever it differs from the cached one.
tracker_comments_differs(item, comments, acc) ==
  IF comments # <<>> /\ comments[1] # NoDate
       /\ comments[1] # acc.m[item.id].last_comment_date
    THEN [acc EXCEPT
            !.upd = Append(@, NewComment(item, comments[1])),
            !.m = Put(@, item.id, [acc.m[item.id] EXCEPT !.last_comment_date = comments[1]])]
    ELSE acc

\* (mutant) the new_comment event is put in front of the list.
tracker_comments_prepend(item, comments, acc) ==
  IF comments # <<>> /\ comments[1] # NoDate
       /\ (acc.m[item.id].last_comment_date = NoDate
            \/ comments[1] > acc.m[item.id].last_comment_date)
    THEN [acc EXCEPT
            !.upd = <<NewComment(item, comments[1])>> \o @,
            !.m = Put(@, item.id, [acc.m[item.id] EXCEPT !.last_comment_date = comments[1]])]
    ELSE acc

\* Lines 81-97: the comment check that follows both branches.  `comments` is
\* what client.get_comments returned for the item.
tracker_comments(item, comments, acc) ==
  IF comments # <<>>
    THEN LET latest_date == tracker_latest(comments)
             cached_last_comment == acc.m[item.id].last_comment_date
         IN  IF latest_date # NoDate
                  /\ (cached_last_comment = NoDate \/ latest_date > cached_last_comment)
               THEN [acc EXCEPT
                       !.upd = Append(@, NewComment(item, latest_date)),
                       !.m = Put(@, item.id,
                                 [acc.m[item.id] EXCEPT !.last_comment_date = latest_date])]
               ELSE acc
    ELSE acc

\* (mutant) a status change is reported but the cached status is kept.
tracker_status_stale(item, acc) ==
  IF item.id \notin DOMAIN acc.m
    THEN [acc EXCEPT
            !.new = Append(@, item),
            !.m = Put(@, item.id,
                      [last_status |-> StatusName(item), last_comment_date |-> NoDate,
                       last_check |-> 0])]
    ELSE IF StatusName(item) # acc.m[item.id].last_status
      THEN [acc EXCEPT
              !.upd = Append(@, StatusChange(item, acc.m[item.id].last_status,
                                             StatusName(item)))]
      ELSE acc

\* Lines 63-79: new item, or status comparison of a known one.
tracker_status(item, acc) ==
  IF item.id \notin DOMAIN acc.m
    THEN [acc EXCEPT
            !.new = Append(@, item),
            !.m = Put(@, item.id,
                      [last_status |-> StatusName(item), last_comment_date |-> NoDate,
                       last_check |-> 0])]
    ELSE LET current_status == StatusName(item)
         IN  IF current_status # acc.m[item.id].last_status
               THEN [acc EXCEPT
                       !.upd = Append(@, StatusChange(item, acc.m[item.id].last_status,
                                                      current_status)),
                       !.m = Put(@, item.id,
                                 [acc.m[item.id] EXCEPT !.last_status = current_status])]
               ELSE acc

\* (mutant) the id is read with item["id"]: an item without id raises.
tracker_item_strict(item, comments, failAt, acc) ==
  IF acc.err # ""
    THEN acc
    ELSE IF item.id = NoId \/ ~acc.has
      THEN [acc EXCEPT !.err = "KeyError"]
      ELSE LET a1 == tracker_status(item, acc)
               a2 == [a1 EXCEPT !.calls = @ + 1]
           IN  IF a2.calls = failAt
                 THEN [a2 EXCEPT !.err = "SourceError"]
                 ELSE tracker_comments(item, comments[item.id], a2)

\* (mutant) the comment check is skipped for an item whose status changed.
tracker_item_elif(item, comments, failAt, acc) ==
  IF acc.err # "" \/ item.id = NoId
    THEN acc
    ELSE IF ~acc.has
      THEN [acc EXCEPT !.err = "KeyError"]
      ELSE LET a1 == tracker_status(item, acc)
               a2 == [a1 EXCEPT !.calls = @ + 1]
           IN  IF a2.calls = failAt
                 THEN [a2 EXCEPT !.err = "SourceError"]
                 ELSE IF Len(a1.upd) > Len(acc.upd)
                   THEN a2
                   ELSE tracker_comments(item, comments[item.id], a2)

\* One iteration of the loop over my_incidents (59-97) or my_changes (101-139).
\* comments: id -> the thread the Source holds; failAt: the Source call that
\* fails (0: none).  self.cache[kind] raises KeyError when the key is absent.
tracker_item(item, comments, failAt, acc) ==
  IF acc.err # "" \/ item.id = NoId
    THEN acc
    ELSE IF ~acc.has
      THEN [acc EXCEPT !.err = "KeyError"]
      ELSE LET a1 == tracker_status(item, acc)
               a2 == [a1 EXCEPT !.calls = @ + 1]
           IN  IF a2.calls = failAt
                 THEN [a2 EXCEPT !.err = "SourceError"]
                 ELSE tracker_comments(item, comments[item.id], a2)

RECURSIVE tracker_loop(_, _, _, _, _)
tracker_loop(items, i, comments, failAt, acc) ==
  IF i > Len(items)
    THEN acc
    ELSE tracker_loop(items, i + 1, comments, failAt,
                      tracker_item(items[i], comments, failAt, acc))

\* (mutant) the loop over the changes works on the incidents mapping.
get_new_activities_shared(cache, source, now, failAt) ==
  LET inc == tracker_loop(source.incidents, 1, source.comments.incidents, failAt,
                          Acc("incidents" \in cache.keys, cache.incidents, 2))
      chg == tracker_loop(source.changes, 1, source.comments.changes, failAt,
                          [Acc("incidents" \in cache.keys, inc.m, inc.calls)
                             EXCEPT !.err = inc.err])
      mutated == [cache EXCEPT !.incidents = chg.m]
  IN  IF failAt \in {1, 2}
        THEN [cache |-> cache, new_incidents |-> <<>>, updated_incidents |-> <<>>,
              new_changes |-> <<>>, updated_changes |-> <<>>, err |-> "SourceError",
              failed |-> TRUE,
              calls |-> failAt]
        ELSE [cache |-> IF chg.err = ""
                          THEN [mutated EXCEPT !.keys = @ \cup {"last_check"},
                                               !.last_check = now]
                          ELSE mutated,
              new_incidents |-> inc.new, updated_incidents |-> inc.upd,
              new_changes |-> chg.new, updated_changes |-> chg.upd,
              err |-> chg.err, failed |-> (chg.err = "SourceError"),
              calls |-> chg.calls]

\* TopdeskTracker.get_new_activities up to (not including) the save: the
\* in-memory cache, the four event lists and the error that ended the cycle.
\* Source calls: 1 get_my_incidents, 2 get_my_changes, then one get_comments
\* per trackable item.
get_new_activities(cache, source, now, failAt) ==
  LET none == [cache |-> cache, new_incidents |-> <<>>, updated_incidents |-> <<>>,
               new_changes |-> <<>>, updated_changes |-> <<>>, err |-> "SourceError",
               failed |-> TRUE,
              calls |-> failAt]
      inc == tracker_loop(source.incidents, 1, source.comments.incidents, failAt,
                          Acc("incidents" \in cache.keys, cache.incidents, 2))
      chg == tracker_loop(source.changes, 1, source.comments.changes, failAt,
                          [Acc("changes" \in cache.keys, cache.changes, inc.calls)
                             EXCEPT !.err = inc.err])
      mutated == [cache EXCEPT !.incidents = inc.m, !.changes = chg.m]
  IN  IF failAt \in {1, 2}
        THEN none
        ELSE [cache |-> IF chg.err = ""
                          THEN [mutated EXCEPT !.keys = @ \cup {"last_check"},
                                               !.last_check = now]
                          ELSE mutated,
              new_incidents |-> inc.new, updated_incidents |-> inc.upd,
              new_changes |-> chg.new, updated_changes |-> chg.upd,
              err |-> chg.err, failed |-> (chg.err = "SourceError"),
              calls |-> chg.calls]

\* ---------------------------------------- TopdeskBrowser (topdesk_browser.py)
\* TopdeskBrowser._get_latest_comment_date: max of the non-empty dates, None
\* for no comments or no dated comment.
get_latest_comment_date(comments) ==
  LET dates == {comments[n] : n \in {x \in 1..Len(comments) : comments[x] # NoDate}}
  IN  IF comments = <<>> \/ dates = {}
        THEN NoDate
        ELSE CHOOSE d \in dates : \A e \in dates : e <= d

\* sorted(comments, key=creation_date, reverse=True)[0]: the first comment in
\* descending date order (a comment without a date sorts last).
browser_latest_comment(comments) ==
  LET n == CHOOSE x \in 1..Len(comments) :
             \A y \in 1..Len(comments) :
                comments[y] < comments[x] \/ (comments[y] = comments[x] /\ x <= y)
  IN  comments[n]

\* Lines 508-517: a new item.  details: the comments get_incident_details
\* returned with the item.
browser_new(item, details, now, acc) ==
  [acc EXCEPT
     !.has = TRUE,
     !.m = Put(@, item.id,
               [last_status |-> item.status,
                last_comment_date |-> get_latest_comment_date(details),
                last_check |-> now])]

\* Lines 519-529: status comparison of a known item.
browser_status(item, acc) ==
  LET prev_status == acc.m[item.id].last_status
      curr_status == item.status
  IN  IF prev_status # NoStatus /\ curr_status # NoStatus /\ prev_status # curr_status
        THEN [acc EXCEPT
                !.upd = Append(@, StatusChange(item, prev_status, curr_status)),
                !.m = Put(@, item.id, [acc.m[item.id] EXCEPT !.last_status = curr_status])]
        ELSE acc

\* Lines 531-553: comment comparison of a known item.
browser_comments(item, details, acc) ==
  LET latest_comment_date == get_latest_comment_date(details)
      prev_comment_date == acc.m[item.id].last_comment_date
  IN  IF latest_comment_date # NoDate
           /\ (prev_comment_date = NoDate \/ latest_comment_date > prev_comment_date)
        THEN [acc EXCEPT
                !.upd = IF details # <<>>
                          THEN Append(@, NewComment(item, browser_latest_comment(details)))
                          ELSE @,
                !.m = Put(@, item.id,
                          [acc.m[item.id] EXCEPT !.last_comment_date = latest_comment_date])]
        ELSE acc

\* One iteration of the loop over current_incidents (503-553) or
\* current_changes (556-606).  previous_data.get(kind, {}) is the empty dict
\* when the key is absent.
browser_item(item, comments, now, failAt, swallowed, acc) ==
  IF acc.err # "" \/ item.id = NoId
    THEN acc
    ELSE IF item.id \notin DOMAIN acc.m
      THEN LET a1 == [acc EXCEPT !.new = Append(@, item), !.calls = @ + 1]
           IN  IF a1.calls = failAt
                 THEN IF swallowed
                        THEN browser_new(item, <<>>, now, a1)
                        ELSE [a1 EXCEPT !.err = "SourceError"]
                 ELSE browser_new(item, comments[item.id], now, a1)
      ELSE LET a1 == browser_status(item, acc)
               a2 == [a1 EXCEPT !.calls = @ + 1]
           IN  IF a2.calls = failAt
                 THEN IF swallowed
                        THEN browser_comments(item, <<>>, a2)
                        ELSE [a2 EXCEPT !.err = "SourceError"]
                 ELSE browser_comments(item, comments[item.id], a2)

RECURSIVE browser_loop(_, _, _, _, _, _, _)
browser_loop(items, i, comments, now, failAt, swallowed, acc) ==
  IF i > Len(items)
    THEN acc
    ELSE browser_loop(items, i + 1, comments, now, failAt, swallowed,
                      browser_item(items[i], comments, now, failAt, swallowed, acc))

\* TopdeskBrowser.check_for_updates up to (not including) the save.
\* Source calls: 1 get_my_incidents, 2 get_my_changes, then one
\* get_incident_details / get_change_details per trackable item.
\* A failing call either raises (a navigation or selector timeout, a details
\* page fetched without a session) or is swallowed (swallowed = TRUE):
\* get_my_incidents / get_my_changes return [] when ensure_logged_in fails,
\* _get_comments_for_incident / _get_comments_for_change return [] on any
\* exception of the comments tab.
check_for_updates(previous_data, source, now, failAt, swallowed) ==
  LET none == [cache |-> previous_data, new_incidents |-> <<>>,
               updated_incidents |-> <<>>, new_changes |-> <<>>,
               updated_changes |-> <<>>, err |-> "SourceError", failed |-> TRUE,
              calls |-> failAt]
      current_incidents == IF failAt = 1 THEN <<>> ELSE source.incidents
      current_changes == IF failAt = 2 THEN <<>> ELSE source.changes
      inc == browser_loop(current_incidents, 1, source.comments.incidents, now, failAt,
                          swallowed,
                          Acc("incidents" \in previous_data.keys, previous_data.incidents, 2))
      chg == browser_loop(current_changes, 1, source.comments.changes, now, failAt,
                          swallowed,
                          [Acc("changes" \in previous_data.keys, previous_data.changes,
                               inc.calls) EXCEPT !.err = inc.err])
      keys == previous_data.keys
                \cup (IF inc.has THEN {"incidents"} ELSE {})
                \cup (IF chg.has THEN {"changes"} ELSE {})
      mutated == [previous_data EXCEPT !.keys = keys, !.incidents = inc.m,
                                       !.changes = chg.m]
  IN  IF failAt \in {1, 2} /\ ~swallowed
        THEN none
        ELSE [cache |-> IF chg.err = ""
                          THEN [mutated EXCEPT !.keys = @ \cup {"last_check"},
                                               !.last_check = now]
                          ELSE mutated,
              new_incidents |-> inc.new, updated_incidents |-> inc.upd,
              new_changes |-> chg.new, updated_changes |-> chg.upd,
              err |-> chg.err, failed |-> (failAt \in 1..chg.calls),
              calls |-> chg.calls]

\* ------------------------------ TopdeskTracker.get_summary_report (152-202)
\* What get_summary_report returns (nothing yet).
NoReport == [incidents |-> <<>>, changes |-> <<>>, last_check |-> 0]

\* last_updated of a record built from details without modification_date:
\* the string "Unknown", which sorts above every date.
UnknownDate == MaxDate + 1

\* self.cache.get("last_check", "Never") when the key is absent.
Never == MaxClock + 1

\* What get_incident_details / get_change_details does for one id:
\*   full      - a dict; modified = NoDate: it has no modification_date
\*   none      - an empty response body: _make_request returns None
\*   malformed - a payload on which building the record raises an Exception
\*               (e.g. "status": null, so .get("status", {}).get fails)
\*   exit      - the request failed: _make_request calls sys.exit(1)
Detail(t, status, modified) == [t |-> t, status |-> status, modified |-> modified]

DetailOutcomes ==
  {Detail("full", st, d) : st \in Statuses, d \in Dates \cup {NoDate}}
    \cup {Detail("none", NoStatus, NoDate), Detail("malformed", NoStatus, NoDate),
          Detail("exit", NoStatus, NoDate)}

\* A record of the report; last_updated = NoDate: the record has no such key
\* (the sort key is then "").
FullRecord(id, d) ==
  [id |-> id, status |-> d.status,
   last_updated |-> IF d.modified = NoDate THEN UnknownDate ELSE d.modified,
   error |-> FALSE]

DegradedRecord(id, status) ==
  [id |-> id, status |-> status, last_updated |-> NoDate, error |-> TRUE]

\* (mutant) an id whose detail fetch returns nothing is dropped from the mapping.
RECURSIVE report_loop_prunes(_, _, _, _, _)
report_loop_prunes(ids, i, m, details, acc) ==
  IF i > Len(ids) \/ acc.err # ""
    THEN acc
    ELSE LET id == ids[i]
             d == details[id]
         IN  report_loop_prunes(ids, i + 1, m, details,
               IF d.t = "exit" THEN [acc EXCEPT !.err = "SourceError"]
               ELSE IF d.t = "malformed"
                 THEN [acc EXCEPT !.recs = Append(@, DegradedRecord(id, m[id].last_status))]
               ELSE IF d.t = "none"
                 THEN [acc EXCEPT !.m = [x \in DOMAIN @ \ {id} |-> @[x]]]
               ELSE [acc EXCEPT !.recs = Append(@, FullRecord(id, d))])

\* Lines 158-175 / 178-195: one loop over the ids of a mapping, in the order
\* the dict yields them.  acc.m is the mapping as the loop leaves it: the loop
\* reads self.cache and assigns nothing to it.
RECURSIVE report_loop(_, _, _, _, _)
report_loop(ids, i, m, details, acc) ==
  IF i > Len(ids) \/ acc.err # ""
    THEN acc
    ELSE LET id == ids[i]
             d == details[id]
         IN  report_loop(ids, i + 1, m, details,
               IF d.t = "exit" THEN [acc EXCEPT !.err = "SourceError"]
               ELSE IF d.t = "malformed"
                 THEN [acc EXCEPT !.recs = Append(@, DegradedRecord(id, m[id].last_status))]
               ELSE IF d.t = "none" THEN acc
               ELSE [acc EXCEPT !.recs = Append(@, FullRecord(id, d))])

\* (mutant) sorted(...) without reverse=True: ascending, stable.
InsertAscending(s, x) ==
  LET later == {n \in 1..Len(s) : s[n].last_updated > x.last_updated}
      at == IF later = {} THEN Len(s) + 1 ELSE CHOOSE n \in later : \A o \in later : n <= o
  IN  SubSeq(s, 1, at - 1) \o <<x>> \o SubSeq(s, at, Len(s))

\* One insertion of sorted(recs, key=last_updated, reverse=True): the sort
\* is stable, so x goes after the records whose key is not smaller.
Insert(s, x) ==
  LET smaller == {n \in 1..Len(s) : s[n].last_updated < x.last_updated}
      at == IF smaller = {} THEN Len(s) + 1
            ELSE CHOOSE n \in smaller : \A o \in smaller : n <= o
  IN  SubSeq(s, 1, at - 1) \o <<x>> \o SubSeq(s, at, Len(s))

RECURSIVE sorted_desc(_, _)
sorted_desc(recs, n) ==
  IF n = 0 THEN <<>> ELSE Insert(sorted_desc(recs, n - 1), recs[n])

\* The ids of a mapping in the order `order` lists them.
KeysOf(m, order) == SelectSeq(order, LAMBDA i : i \in DOMAIN m)

\* TopdeskTracker.get_summary_report.  order: the iteration order of the
\* dicts; details: kind -> id -> what the detail fetch does.
get_summary_report(cache, order, details) ==
  LET start == [recs |-> <<>>, err |-> "", m |-> cache.incidents]
      inc == IF "incidents" \in cache.keys
               THEN report_loop(KeysOf(cache.incidents, order), 1, cache.incidents,
                                details.incidents, start)
               ELSE [start EXCEPT !.err = "KeyError"]
      chg == IF inc.err # "" THEN [inc EXCEPT !.m = cache.changes]
             ELSE IF "changes" \in cache.keys
               THEN report_loop(KeysOf(cache.changes, order), 1, cache.changes,
                                details.changes, [start EXCEPT !.m = cache.changes])
               ELSE [start EXCEPT !.err = "KeyError", !.m = cache.changes]
  IN  [err |-> chg.err,
       cache |-> [cache EXCEPT !.incidents = inc.m, !.changes = chg.m],
       report |-> IF chg.err # "" THEN NoReport
                  ELSE [incidents |-> sorted_desc(inc.recs, Len(inc.recs)),
                        changes |-> sorted_desc(chg.recs, Len(chg.recs)),
                        last_check |-> IF "last_check" \in cache.keys
                                         THEN cache.last_check ELSE Never]]

\* ------------------------------------------------------------ state machine
VARIABLES
  impl,     \* which implementation this behaviour runs
  file,     \* the persisted file (cache_file / LAST_CHECK_FILE)
  cache,    \* TopdeskTracker.cache of the live tracker object, or NoProc
  source,   \* the Source: [incidents, changes: item lists, comments: kind -> id -> thread]
  now,      \* the clock: datetime.now() of the latest poll cycle
  budget,   \* changes of the Source's data still to come
  last,     \* the latest poll cycle, until the Source's data changes again
  quiet,    \* completed poll cycles in a row over unchanged Source data (up to 2)
  procs,    \* two tracker processes sharing the persisted file, or NoProcs
  finder    \* a run of domain_finder.find_unique_word, or NoFinder

vars == <<impl, file, cache, source, now, budget, last, quiet, procs, finder>>

\* The variables of one tracker, and the ones it never touches.
tracker_vars == <<impl, file, cache, source, now, budget, last, quiet>>
other_vars == <<procs, finder>>

\* No second process is running, no finder run has been started.
NoProcs == <<>>
NoFinder == <<>>

\* failed: a Source call of the operation failed, raised or swallowed;
\* calls: the Source calls the cycle made.
NoPoll ==
  [outcome |-> "none", err |-> "", failed |-> FALSE, calls |-> 0,
   pre |-> NoProc, post |-> NoProc,
   fileBefore |-> Absent,
   new_incidents |-> <<>>, updated_incidents |-> <<>>,
   new_changes |-> <<>>, updated_changes |-> <<>>, report |-> NoReport,
   details |-> [incidents |-> <<>>, changes |-> <<>>]]

EmptySource ==
  [incidents |-> <<>>, changes |-> <<>>,
   comments |-> [incidents |-> [i \in Ids |-> <<>>], changes |-> [i \in Ids |-> <<>>]]]

\* Files found at start-up: none, or a JSON document written by something
\* other than a completed save: "{}", or a dict lacking the changes mapping.
InitFiles ==
  {Absent,
   json_dump([EmptySnapshot EXCEPT !.keys = {}]),
   json_dump([EmptySnapshot EXCEPT !.keys = {"incidents", "last_check"}])}

Init ==
  /\ impl \in Impls
  /\ file = Absent
  /\ cache = NoProc
  /\ source = EmptySource
  /\ now = 0
  /\ budget = MaxEdits
  /\ last = NoPoll
  /\ quiet = 0
  /\ procs = NoProcs
  /\ finder = NoFinder

\* The most Source calls one cycle makes: two listings, one fetch per item.
MaxCalls == 2 + 2 * MaxItems

\* (mutant) the snapshot is saved only when the cycle found something.
FinishSavesOnEvents(pre, r, written) ==
  LET found == r.new_incidents # <<>> \/ r.updated_incidents # <<>>
                 \/ r.new_changes # <<>> \/ r.updated_changes # <<>>
  IN  /\ file' = IF r.err # "" \/ ~found THEN file ELSE save_cache(r.cache, written)
      /\ last' = [outcome |-> IF r.err # "" THEN "failed" ELSE "ok", err |-> r.err,
                  failed |-> r.failed, calls |-> r.calls,
                  pre |-> pre, post |-> r.cache, fileBefore |-> file,
                  new_incidents |-> r.new_incidents,
                  updated_incidents |-> r.updated_incidents,
                  new_changes |-> r.new_changes,
                  updated_changes |-> r.updated_changes, report |-> NoReport,
                  details |-> NoPoll.details]
      /\ quiet' = 0
      /\ now' = now + 1

\* (mutant) the snapshot is saved on the way out of a failed cycle too.
FinishSavesAlways(pre, r, written) ==
  /\ file' = save_cache(r.cache, written)
  /\ last' = [outcome |-> IF r.err # "" THEN "failed" ELSE "ok", err |-> r.err,
              failed |-> r.failed, calls |-> r.calls,
              pre |-> pre, post |-> r.cache, fileBefore |-> file,
              new_incidents |-> r.new_incidents,
              updated_incidents |-> r.updated_incidents,
              new_changes |-> r.new_changes,
              updated_changes |-> r.updated_changes, report |-> NoReport,
                  details |-> NoPoll.details]
  /\ quiet' = 0
  /\ now' = now + 1

\* What a poll cycle leaves behind.  r: the cycle up to the save; written:
\* tokens that reached the file before the process was killed in the save
\* (Len of the text: the save completed).
Finish(pre, r, written) ==
  LET text == json_dump(r.cache)
      outcome == IF r.err # "" THEN "failed"
                 ELSE IF written < Len(text) THEN "crashed" ELSE "ok"
  IN  /\ file' = IF r.err # "" THEN file ELSE save_cache(r.cache, written)
      /\ last' = [outcome |-> outcome, err |-> r.err, failed |-> r.failed, calls |-> r.calls,
                  pre |-> pre, post |-> r.cache, fileBefore |-> file,
                  new_incidents |-> r.new_incidents,
                  updated_incidents |-> r.updated_incidents,
                  new_changes |-> r.new_changes,
                  updated_changes |-> r.updated_changes, report |-> NoReport,
                  details |-> NoPoll.details]
      /\ quiet' = IF outcome = "ok" /\ ~r.failed
                    THEN (IF quiet < 2 THEN quiet + 1 ELSE 2)
                    ELSE 0
      /\ now' = now + 1

\* TopdeskTracker.__init__: a tracker object is built and loads the cache.
TrackerInit ==
  /\ impl = "tracker"
  /\ cache' = load_cache(file)
  /\ UNCHANGED <<impl, file, source, now, budget, last, quiet, procs, finder>>

\* TopdeskTracker.get_new_activities on the live tracker object.
TrackerPoll ==
  /\ impl = "tracker"
  /\ cache # NoProc
  /\ now < MaxClock
  /\ \E failAt \in 0..MaxCalls :
       LET r == get_new_activities(cache, source, now + 1, failAt)
       IN  /\ Finish(cache, r, Len(json_dump(r.cache)))
           /\ cache' = r.cache
  /\ UNCHANGED <<impl, source, budget, procs, finder>>

\* TopdeskBrowser.check_for_updates: the state is loaded after the listings.
BrowserPoll ==
  /\ impl = "browser"
  /\ now < MaxClock
  /\ \E failAt \in 0..MaxCalls, swallowed \in BOOLEAN :
       LET previous_data == load_cache(file)
           r == check_for_updates(previous_data, source, now + 1, failAt, swallowed)
       IN  Finish(previous_data, r, Len(json_dump(r.cache)))
  /\ UNCHANGED <<impl, cache, source, budget, procs, finder>>

\* ---- the Source's data changes between polls
Edited(src) ==
  /\ budget > 0
  /\ source' = src
  /\ budget' = budget - 1
  /\ last' = NoPoll
  /\ quiet' = 0
  /\ UNCHANGED <<impl, file, cache, now, procs, finder>>

RemoveAt(s, i) == SubSeq(s, 1, i - 1) \o SubSeq(s, i + 1, Len(s))

SourceAddItem ==
  \E k \in KindSet, item \in Items :
    /\ Len(source[k]) < MaxItems
    /\ Edited([source EXCEPT ![k] = Append(@, item)])

SourceRemoveItem ==
  \E k \in KindSet :
    \E i \in 1..Len(source[k]) :
      Edited([source EXCEPT ![k] = RemoveAt(@, i)])

SourceSetStatus ==
  \E k \in KindSet, s \in Statuses \cup {NoStatus} :
    \E i \in 1..Len(source[k]) :
      /\ source[k][i].status # s
      /\ Edited([source EXCEPT ![k][i].status = s])

SourceAddComment ==
  \E k \in KindSet, id \in Ids, d \in Dates \cup {NoDate}, front \in BOOLEAN :
    /\ \E i \in 1..Len(source[k]) : source[k][i].id = id
    /\ Len(source.comments[k][id]) < MaxComments
    /\ Edited([source EXCEPT !.comments[k][id] =
                 IF front THEN <<d>> \o @ ELSE Append(@, d)])

SourceRemoveComment ==
  \E k \in KindSet, id \in Ids :
    /\ source.comments[k][id] # <<>>
    /\ Edited([source EXCEPT !.comments[k][id] = Tail(@)])

Next ==
  \/ TrackerInit
  \/ TrackerPoll
  \/ BrowserPoll
  \/ SourceAddItem
  \/ SourceRemoveItem
  \/ SourceSetStatus
  \/ SourceAddComment
  \/ SourceRemoveComment

Spec == Init /\ [][Next]_vars

\* ---- the same program, with the process killed while it saves
InitStore ==
  /\ impl \in Impls
  /\ file \in InitFiles
  /\ cache = NoProc
  /\ source = EmptySource
  /\ now = 0
  /\ budget = MaxStoreEdits
  /\ last = NoPoll
  /\ quiet = 0
  /\ procs = NoProcs
  /\ finder = NoFinder

\* get_new_activities runs to _save_cache and the process dies in it, after
\* open(..., 'w') and before the last token is written.
TrackerPollKilled ==
  /\ impl = "tracker"
  /\ cache # NoProc
  /\ now < MaxClock
  /\ LET r == get_new_activities(cache, source, now + 1, 0)
     IN  /\ r.err = ""
         /\ \E written \in 0..(Len(json_dump(r.cache)) - 1) : Finish(cache, r, written)
  /\ cache' = NoProc
  /\ UNCHANGED <<impl, source, budget, procs, finder>>

\* check_for_updates runs to _save_previous_state and the process dies in it.
BrowserPollKilled ==
  /\ impl = "browser"
  /\ now < MaxClock
  /\ LET previous_data == load_cache(file)
         r == check_for_updates(previous_data, source, now + 1, 0, FALSE)
     IN  /\ r.err = ""
         /\ \E written \in 0..(Len(json_dump(r.cache)) - 1) :
              Finish(previous_data, r, written)
  /\ UNCHANGED <<impl, cache, source, budget, procs, finder>>

NextStore ==
  \/ TrackerInit
  \/ TrackerPoll
  \/ BrowserPoll
  \/ TrackerPollKilled
  \/ BrowserPollKilled
  \/ SourceAddItem
  \/ SourceSetStatus
  \/ SourceAddComment

SpecStore == InitStore /\ [][NextStore]_vars

\* ---- the tracker, asked for summary reports between poll cycles
InitReport ==
  /\ impl \in Impls
  /\ file = Absent
  /\ cache = NoProc
  /\ source = EmptySource
  /\ now = 0
  /\ budget = MaxReportEdits
  /\ last = NoPoll
  /\ quiet = 0
  /\ procs = NoProcs
  /\ finder = NoFinder

Orders == {o \in [1..Len(IdSeq) -> Ids] : \A i, j \in 1..Len(IdSeq) : o[i] = o[j] => i = j}

\* TopdeskTracker.get_summary_report on the live tracker object; sys.exit in
\* a detail fetch ends the process.  A report changes nothing a report that
\* follows it could see, so one is taken after each other operation.
Report ==
  /\ impl = "tracker"
  /\ cache # NoProc
  /\ last.outcome \notin {"report", "report_failed"}
  /\ \E order \in Orders,
        di \in [DOMAIN cache.incidents -> DetailOutcomes],
        dc \in [DOMAIN cache.changes -> DetailOutcomes] :
       LET details == [incidents |-> di, changes |-> dc]
           r == get_summary_report(cache, order, details)
       IN  /\ last' = [NoPoll EXCEPT
                         !.outcome = IF r.err = "" THEN "report" ELSE "report_failed",
                         !.err = r.err, !.failed = (r.err = "SourceError"),
                         !.pre = cache, !.post = r.cache, !.fileBefore = file,
                         !.report = r.report, !.details = details]
           /\ cache' = IF r.err = "SourceError" THEN NoProc ELSE r.cache
  /\ UNCHANGED <<impl, file, source, now, budget, quiet, procs, finder>>

NextReport ==
  \/ TrackerInit
  \/ TrackerPoll
  \/ BrowserPoll
  \/ SourceAddItem
  \/ SourceRemoveItem
  \/ SourceSetStatus
  \/ Report

SpecReport == InitReport /\ [][NextReport]_vars

\* ---- two tracker processes, each running one poll cycle on the same file
Procs == {"A", "B"}

\* phase: new, loaded, diffed, writing, done; text: what the save writes;
\* offset: tokens written so far; rank: 1 for the first save completed.
NewProc == [phase |-> "new", cache |-> NoProc, text |-> <<>>, offset |-> 0, rank |-> 0]

\* Bytes the file system puts where a write lands beyond the end of a file.
Hole == Tok("hole", "", "", "", 0, 0)

\* f.write at the descriptor's own offset: the chunk replaces what is there.
WriteAt(f, offset, chunk) ==
  LET base == IF Len(f) < offset THEN f \o [i \in 1..(offset - Len(f)) |-> Hole] ELSE f
  IN  SubSeq(base, 1, offset) \o chunk \o SubSeq(base, offset + Len(chunk) + 1, Len(base))

InitTwo ==
  /\ impl \in Impls
  /\ file = Absent
  /\ cache = NoProc
  /\ source = EmptySource
  /\ now = 0
  /\ budget = MaxTwoEdits
  /\ last = NoPoll
  /\ quiet = 0
  /\ procs = [p \in Procs |-> NewProc]
  /\ finder = NoFinder

\* _load_cache / _load_previous_state in process p.
TwoLoad(p) ==
  /\ procs[p].phase = "new"
  /\ procs' = [procs EXCEPT ![p].phase = "loaded", ![p].cache = load_cache(file)]
  /\ UNCHANGED <<tracker_vars, finder>>

\* The cycle of process p up to its save, once both processes have loaded.
TwoDiff(p) ==
  /\ procs[p].phase = "loaded"
  /\ \A q \in Procs : procs[q].phase # "new"
  /\ LET r == IF impl = "tracker"
                THEN get_new_activities(procs[p].cache, source, now + 1, 0)
                ELSE check_for_updates(procs[p].cache, source, now + 1, 0, FALSE)
     IN  /\ r.err = ""
         /\ procs' = [procs EXCEPT ![p].phase = "diffed", ![p].cache = r.cache,
                                   ![p].text = json_dump(r.cache)]
  /\ now' = now + 1
  /\ UNCHANGED <<impl, file, cache, source, budget, last, quiet, finder>>

\* open(file, 'w') in process p: the file is truncated.
TwoOpen(p) ==
  /\ procs[p].phase = "diffed"
  /\ file' = <<>>
  /\ procs' = [procs EXCEPT ![p].phase = "writing", ![p].offset = 0]
  /\ UNCHANGED <<impl, cache, source, now, budget, last, quiet, finder>>

\* json.dump in process p: the next n tokens reach the file; after the last
\* one the file is closed and the save is complete.
TwoWrite(p) ==
  /\ procs[p].phase = "writing"
  /\ \E n \in 1..(Len(procs[p].text) - procs[p].offset) :
       LET end == procs[p].offset + n
           finished == end = Len(procs[p].text)
           done == Cardinality({q \in Procs : procs[q].phase = "done"})
       IN  /\ file' = WriteAt(file, procs[p].offset,
                              SubSeq(procs[p].text, procs[p].offset + 1, end))
           /\ procs' = [procs EXCEPT
                          ![p].offset = end,
                          ![p].phase = IF finished THEN "done" ELSE "writing",
                          ![p].rank = IF finished THEN done + 1 ELSE 0]
  /\ UNCHANGED <<impl, cache, source, now, budget, last, quiet, finder>>

NextTwo ==
  \/ SourceAddItem
  \/ \E p \in Procs : TwoLoad(p)
  \/ \E p \in Procs : TwoDiff(p)
  \/ \E p \in Procs : TwoOpen(p)
  \/ \E p \in Procs : TwoWrite(p)

SpecTwo == InitTwo /\ [][NextTwo]_vars

\* ---- domain_finder.find_unique_word
Words == {"bakol", "treno"}      \* what generate_word can return; repeats are possible

\* What whois.whois does: returns None, a record without or with a
\* creation date, or raises.
WhoisOutcomes == {"none", "no_creation_date", "registered", "raises"}

\* What requests.get does: 200 with or without the no-results marker,
\* another status code, or raises.
GoogleOutcomes == {"200_no_results", "200_results", "status_429", "raises"}

is_domain_available(whois) ==
  CASE whois \in {"none", "no_creation_date"} ->
         [available |-> TRUE, message |-> "DOMAIN: Available"]
    [] whois = "registered" ->
         [available |-> FALSE, message |-> "DOMAIN: Taken"]
    [] OTHER ->
         [available |-> TRUE, message |-> "DOMAIN: Potentially Available (Error)"]

has_google_results(response) ==
  CASE response = "200_no_results" ->
         [has_results |-> FALSE, message |-> "GOOGLE: No results found"]
    [] response = "200_results" ->
         [has_results |-> TRUE, message |-> "GOOGLE: Has results"]
    [] response = "status_429" ->
         [has_results |-> FALSE, message |-> "GOOGLE: Error - Status code"]
    [] OTHER ->
         [has_results |-> FALSE, message |-> "GOOGLE: Error"]

\* write_to_file appends one record.
write_to_file(records, word, domain_result, google_result) ==
  Append(records, [word |-> word, domain |-> domain_result, google |-> google_result])

InitFinder ==
  /\ impl = "tracker"
  /\ file = Absent
  /\ cache = NoProc
  /\ source = EmptySource
  /\ now = 0
  /\ budget = 0
  /\ last = NoPoll
  /\ quiet = 0
  /\ procs = NoProcs
  /\ \E max_attempts \in 0..MaxAttempts :
       finder = [max_attempts |-> max_attempts, i |-> 0, found_words |-> <<>>,
                 records |-> <<>>, calls |-> <<>>, returned |-> FALSE]

\* One iteration of the for loop of find_unique_word.
Attempt ==
  /\ ~finder.returned
  /\ finder.i < finder.max_attempts
  /\ \E word \in Words, whois \in WhoisOutcomes, response \in GoogleOutcomes :
       LET d == is_domain_available(whois)
           g == has_google_results(response)
           whoisCall == [op |-> "whois", word |-> word, result |-> d.available]
           googleCall == [op |-> "google", word |-> word, result |-> g.has_results]
       IN  finder' =
             IF d.available
               THEN [finder EXCEPT
                       !.i = @ + 1,
                       !.calls = @ \o <<whoisCall, googleCall>>,
                       !.records = write_to_file(@, word, d.message, g.message),
                       !.found_words = IF ~g.has_results THEN Append(@, word) ELSE @]
               ELSE [finder EXCEPT
                       !.i = @ + 1,
                       !.calls = Append(@, whoisCall),
                       !.records = write_to_file(@, word, d.message,
                                                 "GOOGLE: Check skipped - Domain not available")]
  /\ UNCHANGED <<tracker_vars, procs>>

\* return found_words, after the last iteration.
Return ==
  /\ ~finder.returned
  /\ finder.i = finder.max_attempts
  /\ finder' = [finder EXCEPT !.returned = TRUE]
  /\ UNCHANGED <<tracker_vars, procs>>

NextFinder == Attempt \/ Return

SpecFinder == InitFinder /\ [][NextFinder]_vars

\* ---- _save_cache followed by _load_cache, on every well-formed snapshot
Entries == [last_status : Statuses, last_comment_date : 0..MaxDate, last_check : {0}]
Maps == UNION {[ids -> Entries] : ids \in SUBSET Ids}
Snapshots ==
  [keys : {EmptySnapshot.keys}, incidents : Maps, changes : Maps, last_check : 0..MaxClock]

InitRoundTrip ==
  /\ impl \in Impls
  /\ file = Absent
  /\ cache \in Snapshots
  /\ source = EmptySource
  /\ now = 0
  /\ budget = 0
  /\ last = NoPoll
  /\ quiet = 0
  /\ procs = NoProcs
  /\ finder = NoFinder

\* _save_cache / _save_previous_state, run to the end; the process then ends.
SaveCache ==
  /\ cache # NoProc
  /\ last.outcome = "none"
  /\ file' = save_cache(cache, Len(json_dump(cache)))
  /\ last' = [NoPoll EXCEPT !.outcome = "saved", !.pre = cache, !.fileBefore = file]
  /\ cache' = NoProc
  /\ UNCHANGED <<impl, source, now, budget, quiet, procs, finder>>

\* _load_cache / _load_previous_state in a new process.
LoadCache ==
  /\ last.outcome = "saved"
  /\ cache' = load_cache(file)
  /\ last' = [last EXCEPT !.outcome = "loaded"]
  /\ UNCHANGED <<impl, file, source, now, budget, quiet, procs, finder>>

NextRoundTrip == SaveCache \/ LoadCache

SpecRoundTrip == InitRoundTrip /\ [][NextRoundTrip]_vars

\* ================================================================== claims
\* The latest poll cycle, per kind.
NewOf(k) == IF k = "incidents" THEN last.new_incidents ELSE last.new_changes
UpdOf(k) == IF k = "incidents" THEN last.updated_incidents ELSE last.updated_changes

Completed == last.outcome = "ok" /\ ~last.failed

NoEvents ==
  /\ last.new_incidents = <<>>
  /\ last.updated_incidents = <<>>
  /\ last.new_changes = <<>>
  /\ last.updated_changes = <<>>

\* Positions of id in the fetched list of kind k.
Positions(k, id) == {i \in 1..Len(source[k]) : source[k][i].id = id}

\* id is listed exactly once in the fetched list of kind k.
ListedOnce(k, id) == Cardinality(Positions(k, id)) = 1

TheItem(k, id) == source[k][CHOOSE i \in Positions(k, id) : TRUE]

Unseen(k, id) == id \notin DOMAIN last.pre[k]

\* Events of one type the cycle emitted for id.
EventsFor(k, id, type) ==
  {n \in 1..Len(UpdOf(k)) : UpdOf(k)[n].type = type /\ UpdOf(k)[n].item.id = id}

NewFor(k, id) == {n \in 1..Len(NewOf(k)) : NewOf(k)[n].id = id}

\* The greatest creation date of a thread, NoDate when no comment is dated.
GreatestDate(comments) ==
  IF \E n \in 1..Len(comments) : comments[n] # NoDate
    THEN CHOOSE d \in Dates :
           /\ \E n \in 1..Len(comments) : comments[n] = d
           /\ \A n \in 1..Len(comments) : comments[n] <= d
    ELSE NoDate

\* Every occurrence of an id in one fetched list carries the same status.
ConsistentLists ==
  \A k \in KindSet :
    \A i, j \in 1..Len(source[k]) :
      (source[k][i].id = source[k][j].id /\ source[k][i].id # NoId)
         => source[k][i].status = source[k][j].status

\* C1 (as stated): two poll cycles in succession over unchanged Source data:
\* the second returns four empty event lists, whatever the item lists are.
C1_Idempotent == (Completed /\ quiet = 2) => NoEvents

\* C1 (amended): the same, for item lists in which all occurrences of an id
\* carry the same status.
C1_IdempotentConsistent == (Completed /\ quiet = 2 /\ ConsistentLists) => NoEvents

C1_Witness ==
  /\ Completed
  /\ quiet = 2
  /\ NoEvents
  /\ Len(source.incidents) = 2
  /\ source.incidents[1] = source.incidents[2]
  /\ source.incidents[1].id # NoId
  /\ source.comments.incidents[source.incidents[1].id] # <<>>

\* C2: an id absent from the snapshot at the start of a completed cycle gets
\* exactly one NewItem event and no StatusChanged and no NewComment event.
C2_NewItemOneEvent ==
  Completed =>
    \A k \in KindSet, id \in Ids :
      (ListedOnce(k, id) /\ Unseen(k, id)) =>
         /\ Cardinality(NewFor(k, id)) = 1
         /\ EventsFor(k, id, "status_change") = {}
         /\ EventsFor(k, id, "new_comment") = {}

\* The status an implementation reads off an item.
ItemStatus(item) == IF impl = "tracker" THEN StatusName(item) ELSE item.status

\* C3: after a completed cycle that saw a previously unseen id, its entry has
\* lastStatus = the item's status and lastCommentDate = the greatest creation
\* date of its comments (null without comments).
C3_FirstSighting ==
  Completed =>
    \A k \in KindSet, id \in Ids :
      (ListedOnce(k, id) /\ Unseen(k, id)) =>
         /\ id \in DOMAIN last.post[k]
         /\ last.post[k][id].last_status = ItemStatus(TheItem(k, id))
         /\ last.post[k][id].last_comment_date = GreatestDate(source.comments[k][id])

C5_NewCommentStrict ==
  Completed =>
    \A k \in KindSet, id \in Ids :
      (ListedOnce(k, id) /\ ~Unseen(k, id)) =>
         LET latest == GreatestDate(source.comments[k][id])
             cached == last.pre[k][id].last_comment_date
             evs == EventsFor(k, id, "new_comment")
         IN  IF latest # NoDate /\ (cached = NoDate \/ latest > cached)
               THEN /\ Cardinality(evs) = 1
                    /\ last.post[k][id].last_comment_date = latest
               ELSE /\ evs = {}
                    /\ last.post[k][id].last_comment_date = cached

\* C6: the comment a NewComment event carries is the one with the greatest
\* creation date of the item's thread, in whatever order the thread is listed.
C6_LatestIsGreatest ==
  Completed =>
    \A k \in KindSet :
      \A n \in 1..Len(UpdOf(k)) :
        UpdOf(k)[n].type = "new_comment" =>
          UpdOf(k)[n].comment = GreatestDate(source.comments[k][UpdOf(k)[n].item.id])

\* C7: a cycle that fails (a Source call or the diff raised) leaves the
\* persisted file as it was; a cycle that completes has written the whole
\* snapshot, with the last-check time of this cycle.
C7_Atomic ==
  /\ (last.outcome = "failed") => file = last.fileBefore
  /\ Completed =>
       /\ WellFormed(file)
       /\ load_cache(file) = last.post
       /\ "last_check" \in last.post.keys
       /\ last.post.last_check = now

\* A Source call failed after the diff had changed the in-memory snapshot.
C7_Witness ==
  /\ last.outcome = "failed"
  /\ last.err = "SourceError"
  /\ last.post # last.pre
  /\ file = last.fileBefore
  /\ last.new_incidents # <<>>

\* The persisted document holds both mappings.
FullSnapshotDoc(f) ==
  /\ f # Absent
  /\ WellFormed(f)
  /\ {"incidents", "changes"} \subseteq json_load(f).keys

\* C8: after a save that was interrupted, the file is the previous document
\* or a complete one, and load gives the previous or the new snapshot.
C8_AtomicSave ==
  (last.outcome = "crashed") =>
    /\ file = last.fileBefore \/ WellFormed(file)
    /\ load_cache(file) \in {load_cache(last.fileBefore), last.post}

\* C9: a poll that starts on a file that is absent, truncated, or lacks a
\* mapping, starts from the empty snapshot and does not fail on the snapshot.
C9_CorruptionNeverBlocks ==
  (last.outcome \in {"ok", "failed", "crashed"} /\ ~FullSnapshotDoc(last.fileBefore)) =>
    /\ last.pre = EmptySnapshot
    /\ last.err # "KeyError"

\* C10: load after save(S) returns S, for every well-formed snapshot S.
C10_RoundTrip ==
  (last.outcome = "loaded") => cache = last.pre

\* The round trip of the snapshot with empty mappings and a null last_check,
\* through a file that holds the document save wrote.
C10_Witness ==
  /\ last.outcome = "loaded"
  /\ last.pre = EmptySnapshot
  /\ cache = EmptySnapshot
  /\ file = json_dump(EmptySnapshot)
  /\ file # Absent

\* C11: no poll cycle and no summary report removes an id from a snapshot
\* mapping: the operation ends with every id it started with, and the
\* persisted mapping only grows, whether or not the item is still listed.
C11_NeverDeleted ==
  [][\A k \in KindSet :
       /\ DOMAIN last'.pre[k] \subseteq DOMAIN last'.post[k]
       /\ DOMAIN load_cache(file)[k] \subseteq DOMAIN load_cache(file')[k]]_vars

\* A cycle completed over a list that no longer holds an id seen before.
C11_Witness ==
  /\ Completed
  /\ \E id \in DOMAIN last.pre.incidents :
       /\ Positions("incidents", id) = {}
       /\ id \in DOMAIN last.post.incidents
       /\ id \in DOMAIN load_cache(file).incidents

\* The comment the implementation's resolver yields for a thread (C6 is
\* about which comment that is).
ResolvedLatest(comments) ==
  IF impl = "tracker"
    THEN IF comments = <<>> THEN NoDate ELSE tracker_latest(comments)
    ELSE get_latest_comment_date(comments)

StatusCondition(k, id) ==
  /\ last.pre[k][id].last_status # NoStatus
  /\ TheItem(k, id).status # NoStatus
  /\ TheItem(k, id).status # last.pre[k][id].last_status

CommentCondition(k, id) ==
  LET latest == ResolvedLatest(source.comments[k][id])
      cached == last.pre[k][id].last_comment_date
  IN  latest # NoDate /\ (cached = NoDate \/ latest > cached)

UpdatesInOrder(items, events) ==
  \E f \in [1..Len(events) -> 1..Len(items)] :
    /\ \A n \in 1..Len(events) : items[f[n]] = events[n].item
    /\ \A n, m \in 1..Len(events) :
         n < m => /\ f[n] <= f[m]
                  /\ f[n] = f[m] => (events[n].type = "status_change"
                                       /\ events[m].type = "new_comment")

\* The new items are a subsequence of the fetched list.
NewInOrder(items, new) ==
  \E f \in [1..Len(new) -> 1..Len(items)] :
    /\ \A n \in 1..Len(new) : items[f[n]] = new[n]
    /\ \A n, m \in 1..Len(new) : n < m => f[n] < f[m]

\* C13: each returned list holds its events in the order of the fetched item
\* list, and a StatusChanged of an item precedes its NewComment.
C13_EventOrder ==
  Completed =>
    \A k \in KindSet :
      /\ UpdatesInOrder(source[k], UpdOf(k))
      /\ NewInOrder(source[k], NewOf(k))

\* Events of two list positions, one of them with both of its events.
C13_Witness ==
  /\ Completed
  /\ Len(last.updated_incidents) >= 3
  /\ last.updated_incidents[1].type = "status_change"
  /\ last.updated_incidents[2].type = "new_comment"
  /\ last.updated_incidents[2].item = last.updated_incidents[1].item
  /\ last.updated_incidents[3].item # last.updated_incidents[1].item

\* C14: an item without id yields no event and no snapshot entry, raises
\* nothing (a cycle fails on a Source failure only), and the items listed
\* with it are processed: each of them has its entry after the cycle.
C14_UntrackableSkipped ==
  /\ (last.outcome = "failed") => (last.failed /\ last.err = "SourceError")
  /\ Completed =>
       \A k \in KindSet :
         /\ \A n \in 1..Len(NewOf(k)) : NewOf(k)[n].id # NoId
         /\ \A n \in 1..Len(UpdOf(k)) : UpdOf(k)[n].item.id # NoId
         /\ NoId \notin DOMAIN last.post[k]
         /\ \A i \in 1..Len(source[k]) :
              source[k][i].id # NoId => source[k][i].id \in DOMAIN last.post[k]

\* An item without id was listed in front of a new item, which was reported.
C14_Witness ==
  /\ Completed
  /\ Len(source.incidents) = 2
  /\ source.incidents[1].id = NoId
  /\ source.incidents[2].id # NoId
  /\ last.new_incidents = <<source.incidents[2]>>
  /\ DOMAIN last.post.incidents = {source.incidents[2].id}

\* C15: after every cycle that ran to its end the snapshot, in memory and in
\* the persisted file, carries the time of that cycle as its last check.
C15_LastCheckSet ==
  (last.outcome = "ok") =>
    /\ "last_check" \in last.post.keys
    /\ last.post.last_check = now
    /\ "last_check" \in load_cache(file).keys
    /\ load_cache(file).last_check = now

\* A second cycle over two empty lists: no event, and the time moved on.
C15_Witness ==
  /\ last.outcome = "ok"
  /\ NoEvents
  /\ source.incidents = <<>>
  /\ source.changes = <<>>
  /\ last.pre.last_check = 1
  /\ load_cache(file).last_check = 2

\* C16: a cycle in which a Source call failed ends with the error, and has
\* saved nothing; it never completes on an empty list put in place of the
\* failed call's result.
C16_SourceFailureIsHard ==
  last.failed =>
    /\ last.outcome = "failed"
    /\ last.err = "SourceError"
    /\ file = last.fileBefore

Reported == last.outcome \in {"report", "report_failed"}

\* The records of a report list that carry id.
RecordsFor(k, id) == {n \in 1..Len(last.report[k]) : last.report[k][n].id = id}

\* C17: when the detail fetch of a tracked id fails, as TopdeskClient
\* signals it, the report completes and holds the degraded record of that id
\* (its cached status, the error) and the full records of the other ids.
C17_ReportToleratesFailure ==
  Reported =>
    \A k \in KindSet : \A id \in DOMAIN last.pre[k] :
      last.details[k][id].t = "exit" =>
        /\ last.outcome = "report"
        /\ \E n \in RecordsFor(k, id) :
             last.report[k][n] = DegradedRecord(id, last.pre[k][id].last_status)
        /\ \A o \in DOMAIN last.pre[k] :
             last.details[k][o].t = "full" =>
               \E n \in RecordsFor(k, o) :
                 last.report[k][n] = FullRecord(o, last.details[k][o])

\* C18: a report holds exactly one record for every id of each snapshot
\* mapping and none for another id, whatever the detail fetches returned.
C18_ReportCoversSnapshot ==
  Reported =>
    /\ last.outcome = "report"
    /\ \A k \in KindSet :
         /\ \A id \in DOMAIN last.pre[k] : Cardinality(RecordsFor(k, id)) = 1
         /\ \A n \in 1..Len(last.report[k]) : last.report[k][n].id \in DOMAIN last.pre[k]

\* C19: each list of a report is in non-increasing order of last_updated,
\* the records without last_updated (the degraded ones) after all others, and
\* the report's last_check is the snapshot's.
C19_ReportSorted ==
  (last.outcome = "report") =>
    /\ \A k \in KindSet :
         \A n, m \in 1..Len(last.report[k]) :
           n < m => /\ last.report[k][n].last_updated >= last.report[k][m].last_updated
                    /\ last.report[k][n].error => last.report[k][m].error
    /\ last.report.last_check = last.pre.last_check

\* A report of two incidents, the dated full record ahead of the degraded
\* one, taken after a poll cycle.
C19_Witness ==
  /\ last.outcome = "report"
  /\ Len(last.report.incidents) = 2
  /\ ~last.report.incidents[1].error
  /\ last.report.incidents[1].last_updated \in Dates
  /\ last.report.incidents[2].error
  /\ last.report.last_check = 1

\* The trackable ids the fetched list of kind k holds.
ListedIds(k) == {source[k][i].id : i \in 1..Len(source[k])} \ {NoId}

ItemsOf(k) == {source[k][i] : i \in 1..Len(source[k])}

\* C20: the events of a kind carry items of that kind's list, the mapping of
\* a kind gains exactly the ids its own list holds, and an id is new in a
\* kind whenever that kind's mapping lacks it, whatever the other mapping
\* holds.
C20_PartitionedByKind ==
  Completed =>
    \A k \in KindSet :
      /\ \A n \in 1..Len(NewOf(k)) : NewOf(k)[n] \in ItemsOf(k)
      /\ \A n \in 1..Len(UpdOf(k)) : UpdOf(k)[n].item \in ItemsOf(k)
      /\ DOMAIN last.post[k] = DOMAIN last.pre[k] \cup ListedIds(k)
      /\ \A id \in DOMAIN last.pre[k] \ ListedIds(k) : last.post[k][id] = last.pre[k][id]
      /\ \A id \in ListedIds(k) : Unseen(k, id) <=> NewFor(k, id) # {}

\* An id known as an incident is seen for the first time as a change.
C20_Witness ==
  /\ Completed
  /\ \E id \in Ids :
       /\ id \in DOMAIN last.pre.incidents
       /\ id \notin DOMAIN last.pre.changes
       /\ ListedOnce("incidents", id)
       /\ ListedOnce("changes", id)
       /\ NewFor("changes", id) # {}
       /\ NewFor("incidents", id) = {}
       /\ id \in DOMAIN last.post.changes

\* C21: a known item whose cached status or current status is empty or
\* missing yields no StatusChanged event and keeps its cached status, and no
\* StatusChanged event carries an empty old or new status.
C21_NoEmptyStatusChange ==
  Completed =>
    \A k \in KindSet :
      /\ \A n \in 1..Len(UpdOf(k)) :
           UpdOf(k)[n].type = "status_change" =>
             (UpdOf(k)[n].old_status # NoStatus /\ UpdOf(k)[n].new_status # NoStatus)
      /\ \A id \in Ids :
           (/\ ListedOnce(k, id)
            /\ ~Unseen(k, id)
            /\ (last.pre[k][id].last_status = NoStatus \/ TheItem(k, id).status = NoStatus))
             => /\ EventsFor(k, id, "status_change") = {}
                /\ last.post[k][id].last_status = last.pre[k][id].last_status

\* The occurrences of trackable items in the two fetched lists.
TrackableOccurrences ==
  Cardinality({i \in 1..Len(source.incidents) : source.incidents[i].id # NoId})
    + Cardinality({i \in 1..Len(source.changes) : source.changes[i].id # NoId})

\* C22: a completed cycle makes one comment fetch per trackable item next to
\* its two listings, and reports a NewComment for every known item whose
\* thread holds a comment newer than the cached date, whether or not its
\* status changed.
C22_CommentsAlwaysFetched ==
  Completed =>
    /\ last.calls = 2 + TrackableOccurrences
    /\ \A k \in KindSet : \A id \in Ids :
         (/\ ListedOnce(k, id)
          /\ ~Unseen(k, id)
          /\ GreatestDate(source.comments[k][id]) > last.pre[k][id].last_comment_date)
           => EventsFor(k, id, "new_comment") # {}

\* C23: when both processes have loaded before either saved and both have
\* finished, the persisted file is the document of the process whose save
\* completed last, and loads as that process's in-memory snapshot.
C23_LastSaverOwns ==
  (\A p \in Procs : procs[p].phase = "done") =>
    \A p \in Procs :
      procs[p].rank = Cardinality(Procs) =>
        /\ file = procs[p].text
        /\ load_cache(file) = procs[p].cache

\* find_unique_word has made exactly max_attempts attempts when it returns,
\* and has written one record per attempt made.
FinderCounts ==
  /\ Len(finder.records) = finder.i
  /\ Cardinality({n \in 1..Len(finder.calls) : finder.calls[n].op = "whois"}) = finder.i
  /\ finder.returned => finder.i = finder.max_attempts

\* Every Google check directly follows a domain check of the same word that
\* reported the domain available.
GoogleAfterDomain ==
  \A n \in 1..Len(finder.calls) :
    finder.calls[n].op = "google" =>
      /\ n > 1
      /\ finder.calls[n - 1].op = "whois"
      /\ finder.calls[n - 1].word = finder.calls[n].word
      /\ finder.calls[n - 1].result

\* Every word found has an attempt whose domain check confirmed the domain
\* available and whose Google check confirmed that there are no results.
FoundConfirmed ==
  \A n \in 1..Len(finder.found_words) :
    \E r \in 1..Len(finder.records) :
      /\ finder.records[r].word = finder.found_words[n]
      /\ finder.records[r].domain = "DOMAIN: Available"
      /\ finder.records[r].google = "GOOGLE: No results found"

\* C24: find_unique_word makes exactly max_attempts attempts, checks Google
\* only after the domain check reported available, writes one record per
\* attempt, and returns only words whose two checks were confirmed, never a
\* word whose check ended in an error or a non-200 response.
C24_FinderSound ==
  /\ FinderCounts
  /\ GoogleAfterDomain
  /\ FoundConfirmed

\* C25: the comment watermark of an entry never decreases and never returns
\* to null: neither within a poll cycle (snapshot before against snapshot
\* after) nor in the persisted snapshot from one step to the next.
C25_WatermarkMonotone ==
  [][\A k \in KindSet :
       /\ \A id \in DOMAIN last'.pre[k] :
            /\ id \in DOMAIN last'.post[k]
            /\ last'.post[k][id].last_comment_date >= last'.pre[k][id].last_comment_date
       /\ \A id \in DOMAIN load_cache(file)[k] :
            /\ id \in DOMAIN load_cache(file')[k]
            /\ load_cache(file')[k][id].last_comment_date
                 >= load_cache(file)[k][id].last_comment_date]_vars

\* A cycle completed over a thread whose dates are all below the watermark
\* the entry already had.
C25_Witness ==
  /\ Completed
  /\ \E id \in DOMAIN last.pre.incidents :
       /\ ListedOnce("incidents", id)
       /\ last.pre.incidents[id].last_comment_date = MaxDate
       /\ GreatestDate(source.comments.incidents[id]) < MaxDate
       /\ last.post.incidents[id].last_comment_date = MaxDate
       /\ load_cache(file).incidents[id].last_comment_date = MaxDate

\* How many times the cycle recorded in l reported id as new in kind k.
NewCount(l, k, id) ==
  LET s == IF k = "incidents" THEN l.new_incidents ELSE l.new_changes
  IN  Cardinality({n \in 1..Len(s) : s[n].id = id})

\* C26: an id is reported as new at most once.  A cycle that returns its
\* events reports an id as new at most once, only when the snapshot persisted
\* before the cycle lacks the id, and persists the id (which C11 shows is
\* never removed again); the cycle before it did not report the same id.
C26_NewAtMostOnce ==
  [][(last' # last /\ last'.outcome = "ok") =>
       \A k \in KindSet : \A id \in Ids :
         /\ NewCount(last', k, id) <= 1
         /\ NewCount(last', k, id) = 1 =>
              /\ id \notin DOMAIN load_cache(last'.fileBefore)[k]
              /\ id \in DOMAIN load_cache(file')[k]
              /\ last.outcome = "ok" => NewCount(last, k, id) = 0]_vars

\* A cycle completed over a list that holds an id unseen so far twice, and
\* reported it once.
C26_Witness ==
  /\ Completed
  /\ \E id \in Ids :
       /\ Unseen("incidents", id)
       /\ Cardinality(Positions("incidents", id)) = 2
       /\ NewCount(last, "incidents", id) = 1
       /\ id \in DOMAIN load_cache(file).incidents

\* The status and the comment watermark of entry id of mapping m.
Tracked(m, id) == <<m[id].last_status, m[id].last_comment_date>>

\* C27: a poll cycle leaves the status and the comment watermark of every
\* entry whose id its lists do not hold as they were, and adds no entry for
\* an id its lists do not hold: in the snapshot the cycle works on, and in
\* the persisted snapshot when that is the one the cycle started from.
C27_Frame ==
  last.outcome \in {"ok", "failed"} =>
    \A k \in KindSet :
      /\ \A id \in DOMAIN last.pre[k] \ ListedIds(k) :
           /\ id \in DOMAIN last.post[k]
           /\ Tracked(last.post[k], id) = Tracked(last.pre[k], id)
      /\ DOMAIN last.post[k] \ DOMAIN last.pre[k] \subseteq ListedIds(k)
      /\ load_cache(last.fileBefore)[k] = last.pre[k] =>
           /\ \A id \in DOMAIN last.pre[k] \ ListedIds(k) :
                /\ id \in DOMAIN load_cache(file)[k]
                /\ Tracked(load_cache(file)[k], id) = Tracked(last.pre[k], id)
           /\ DOMAIN load_cache(file)[k] \ DOMAIN last.pre[k] \subseteq ListedIds(k)

\* A cycle completed that changed the snapshot for a listed id while an
\* entry with a status, whose id is no longer listed, was in the snapshot.
C27_Witness ==
  /\ Completed
  /\ \E id \in DOMAIN last.pre.incidents \ ListedIds("incidents") :
       /\ last.pre.incidents[id].last_status # NoStatus
       /\ last.post.incidents[id] = last.pre.incidents[id]
       /\ load_cache(file).incidents[id] = last.pre.incidents[id]
  /\ \E other \in ListedIds("incidents") : other \notin DOMAIN last.pre.incidents
  /\ last.post.last_check # last.pre.last_check

\* The events of the cycle recorded in l, as sets.
NewSet(l, k) ==
  LET s == IF k = "incidents" THEN l.new_incidents ELSE l.new_changes
  IN  {s[n] : n \in 1..Len(s)}

UpdSet(l, k) ==
  LET s == IF k = "incidents" THEN l.updated_incidents ELSE l.updated_changes
  IN  {s[n] : n \in 1..Len(s)}

\* C28: the cycle that completes after a failed cycle, over the same Source
\* data and on the same tracker object or a new one, reports every new item,
\* status change and new comment the failed cycle had detected.
C28_NothingLostByFailure ==
  [][(last.outcome = "failed" /\ last'.outcome = "ok" /\ ~last'.failed) =>
       \A k \in KindSet :
         /\ NewSet(last, k) \subseteq NewSet(last', k)
         /\ UpdSet(last, k) \subseteq UpdSet(last', k)]_vars

\* The status an implementation reads from a fetched item: the tracker reads
\* a missing status as "Unknown", the browser keeps it empty.
ObservedStatus(item) == IF impl = "tracker" THEN StatusName(item) ELSE item.status

\* The last occurrence of id in the fetched list of kind k.
LastOccurrence(k, id) ==
  source[k][CHOOSE i \in Positions(k, id) : \A j \in Positions(k, id) : j <= i]

\* C29: after a completed cycle the entry of every listed id holds the status
\* the item had in that cycle (of its last occurrence when listed more than
\* once).
C29_SnapshotWarm ==
  Completed =>
    \A k \in KindSet : \A id \in ListedIds(k) :
      /\ id \in DOMAIN last.post[k]
      /\ last.post[k][id].last_status = ObservedStatus(LastOccurrence(k, id))

\* The same, for the tracker alone.
TrackerSnapshotWarm == impl = "tracker" => C29_SnapshotWarm

\* C30: a summary report leaves the snapshot as it was: no entry added,
\* removed or changed, the last-check timestamp kept, the persisted file not
\* written; the poll cycle that follows returns what it would have returned
\* without the report.
C30_ReportReadOnly ==
  [][(last' # last /\ last'.outcome \in {"report", "report_failed"}) =>
       /\ last'.pre = cache
       /\ last'.post = cache
       /\ file' = file
       /\ cache' # NoProc =>
            /\ cache' = cache
            /\ get_new_activities(cache', source', now' + 1, 0)
                 = get_new_activities(cache, source, now + 1, 0)]_vars

\* A report was made of a snapshot with an incident whose detail fetch
\* returned nothing: the record is left out, the entry stays.
C30_Witness ==
  /\ last.outcome = "report"
  /\ \E id \in DOMAIN last.pre.incidents :
       /\ last.details.incidents[id].t = "none"
       /\ id \in DOMAIN cache.incidents
       /\ id \in DOMAIN load_cache(file).incidents
  /\ last.report.incidents = <<>>
  /\ cache = last.pre
  /\ file = last.fileBefore

====
